---- MODULE Spec2Model ----
(***************************************************************************)
(* Study Buddy chat relay: the ChatInterface component's state and its     *)
(* handleSend handler (React client), the POST /api/chat handler of the    *)
(* Express backend, and the HTTP exchange between them.                    *)
(*                                                                         *)
(* React state is modelled as React keeps it: messages, input and loading  *)
(* are the values of the last render (the values every closure of that     *)
(* render reads); setMessages/setInput/setLoading queue updates that the   *)
(* next render applies.                                                    *)
(***************************************************************************)
EXTENDS Integers, Sequences, FiniteSets

(* ---------------------------- bounds ----------------------------------- *)
MaxRequests == 2     \* POST /api/chat requests issued in one run
MaxTick == 1         \* milliseconds the clock may advance in one run
Clock0 == 100        \* Date.now() at the start of the run

(* ------------------------- JavaScript values --------------------------- *)
\* strings are sequences of characters; the texts a user types
Texts == {<<" ">>, <<"a">>, <<" ", "a", " ">>}

Undefined == [t |-> "undefined"]
Null == [t |-> "null"]
Str(s) == [t |-> "string", v |-> s]
Num(n) == [t |-> "number", v |-> n]
Bool(b) == [t |-> "boolean", v |-> b]

\* typeof x
TypeOf(x) == x.t

\* !x
Falsy(x) ==
    \/ x.t = "undefined"
    \/ x.t = "null"
    \/ x.t = "string" /\ x.v = <<>>
    \/ x.t = "number" /\ x.v = 0

\* obj.f, undefined when the object has no such property
Get(obj, f) == IF f \in DOMAIN obj THEN obj[f] ELSE Undefined

\* a || b
OrElse(a, b) == IF Falsy(a) THEN b ELSE a

IsSpace(c) == c = " "

RECURSIVE TrimStart(_)
TrimStart(s) ==
    IF s = <<>> THEN s
    ELSE IF IsSpace(Head(s)) THEN TrimStart(Tail(s)) ELSE s

RECURSIVE TrimEnd(_)
TrimEnd(s) ==
    IF s = <<>> THEN s
    ELSE IF IsSpace(s[Len(s)]) THEN TrimEnd(SubSeq(s, 1, Len(s) - 1)) ELSE s

\* String.prototype.trim
Trim(s) == TrimEnd(TrimStart(s))

Digit(d) == CASE d = 0 -> "0" [] d = 1 -> "1" [] d = 2 -> "2" [] d = 3 -> "3"
              [] d = 4 -> "4" [] d = 5 -> "5" [] d = 6 -> "6" [] d = 7 -> "7"
              [] d = 8 -> "8" [] d = 9 -> "9"

\* Number.prototype.toString of a non-negative integer
RECURSIVE ToString(_)
ToString(n) ==
    IF n < 10 THEN <<Digit(n)>> ELSE ToString(n \div 10) \o <<Digit(n % 10)>>

(* --------------------------- fixed strings ----------------------------- *)
NoResponseText == <<"No response received.">>
ClientErrorText ==
    <<"Error: Could not get response from server. Check your backend connection.">>
ValidationError == <<"Message is required and must be a string">>
NoKeyError == <<"Gemini API key not configured">>
InternalError == <<"Internal server error">>

(* ------------------------------ state ---------------------------------- *)
VARIABLES
    messages,        \* useState<Message[]>: value of the last render
    input,           \* useState(''): value of the last render
    loading,         \* useState(false): value of the last render
    pendingMsgs,     \* Messages queued by setMessages((prev) => [...prev, m])
    pendingInput,    \* value queued by setInput, or NoUpdate
    pendingLoading,  \* value queued by setLoading, or NoUpdate
    now,             \* Date.now()
    apiKey,          \* process.env.GEMINI_API_KEY
    http,            \* every POST /api/chat request issued, in order of issue
    lastOp,          \* what handleSend did in the last step: "return" (returned
                     \* at its guard), "handleSend" (issued a request), "resolve"
                     \* (axios fulfilled or rejected with the backend's
                     \* response), "malformed" (axios fulfilled with another
                     \* payload), "transportError"; "other" for every other
                     \* operation
    serial           \* history: every submission so far was made after the
                     \* reply to the one before it had been appended

vars == <<messages, input, loading, pendingMsgs, pendingInput, pendingLoading,
          now, apiKey, http, lastOp, serial>>

client == <<messages, input, loading, pendingMsgs, pendingInput, pendingLoading>>

NoUpdate == [t |-> "noupdate"]
NoMessage == [id |-> <<>>, text |-> Undefined, sender |-> "none", timestamp |-> 0]
NoOutcome == [kind |-> "none"]

\* the log as the next render will show it
Log == messages \o pendingMsgs
NextLoading == IF pendingLoading = NoUpdate THEN loading ELSE pendingLoading.v
NextInput == IF pendingInput = NoUpdate THEN input ELSE pendingInput.v

Requests == 1..Len(http)
SessionRequests == {i \in Requests : http[i].origin = "session"}
DirectRequests == {i \in Requests : http[i].origin = "direct"}
\* issued by the session and not yet resolved in handleSend
InFlight == {i \in SessionRequests : ~http[i].settled}

Init ==
    /\ messages = <<>>
    /\ input = <<>>
    /\ loading = FALSE
    /\ pendingMsgs = <<>>
    /\ pendingInput = NoUpdate
    /\ pendingLoading = NoUpdate
    /\ now = Clock0
    /\ apiKey \in {Undefined, Str(<<>>), Str(<<"k">>)}
    /\ http = <<>>
    /\ lastOp = "other"
    /\ serial = TRUE

(* ------------------------------ client --------------------------------- *)
\* a request as axios.post issues it
NewRequest(origin, body, text, userMessage) ==
    [origin |-> origin, body |-> body, stage |-> "sent", providerCalls |-> 0,
     prompt |-> Undefined, outcome |-> NoOutcome, logged |-> NoOutcome,
     responses |-> 0, status |-> 0, resBody |-> <<>>,
     settled |-> FALSE, submitted |-> text, user |-> userMessage, bot |-> NoMessage]

\* onChange={(e) => setInput(e.target.value)}; the field is disabled while loading
Type ==
    /\ ~loading
    /\ \E s \in Texts :
         /\ s # NextInput
         /\ pendingInput' = Str(s)
    /\ lastOp' = "other"
    /\ UNCHANGED <<messages, input, loading, pendingMsgs, pendingLoading, now, apiKey,
                   http, serial>>

\* a render of ChatInterface: the queued updates become the state
Render ==
    /\ pendingMsgs # <<>> \/ pendingInput # NoUpdate \/ pendingLoading # NoUpdate
    /\ messages' = Log
    /\ input' = NextInput
    /\ loading' = NextLoading
    /\ pendingMsgs' = <<>>
    /\ pendingInput' = NoUpdate
    /\ pendingLoading' = NoUpdate
    /\ lastOp' = "other"
    /\ UNCHANGED <<now, apiKey, http, serial>>

SendGuardIgnoresLoading(text, busy) == Trim(text) = <<>>
SendGuardWithoutTrim(text, busy) == text = <<>> \/ busy

\* if (!input.trim() || loading) return;
SendGuard(text, busy) == Trim(text) = <<>> \/ busy

UserMessageTrimmed(text, t) ==
    [id |-> ToString(t), text |-> Str(Trim(text)), sender |-> "user", timestamp |-> t]

\* const userMessage: Message = {...}
UserMessage(text, t) ==
    [id |-> ToString(t), text |-> Str(text), sender |-> "user", timestamp |-> t]

SetMessagesStale(queue, m) == <<m>>
SetMessagesPrepend(queue, m) == <<m>> \o queue

\* setMessages((prev) => [...prev, m]): the appends queued for the next render
SetMessagesAppend(queue, m) == Append(queue, m)

RequestBodyTrimmed(text) == [message |-> Str(Trim(text))]

\* { message: input }
RequestBody(text) == [message |-> Str(text)]

\* handleSend up to the await of axios.post
HandleSend ==
    IF SendGuard(input, loading)
    THEN /\ lastOp' = "return"
         /\ UNCHANGED <<client, now, apiKey, http, serial>>
    ELSE LET userMessage == UserMessage(input, now)
         IN /\ Len(http) < MaxRequests
            /\ serial' = (serial /\ InFlight = {})
            /\ pendingMsgs' = SetMessagesAppend(pendingMsgs, userMessage)
            /\ pendingInput' = Str(<<>>)
            /\ pendingLoading' = Bool(TRUE)
            /\ http' = Append(http, NewRequest("session", RequestBody(input),
                                               input, userMessage))
            /\ lastOp' = "handleSend"
            /\ UNCHANGED <<messages, input, loading, now, apiKey>>

\* an exchange that is over: axios has settled, with the backend's response or
\* with the connection gone (whatever the backend still does for that request
\* reaches nobody). Only what the session keeps of it remains.
Close(r) ==
    [r EXCEPT !.stage = "closed", !.outcome = NoOutcome, !.logged = NoOutcome,
              !.responses = 0, !.status = 0, !.resBody = <<>>]

\* text of the bot Message handleSend builds when axios.post settles: the try
\* block on a 2xx response (reading a property of null throws into the catch
\* block), the catch block otherwise
ReplyText(status, data) ==
    IF status \in 200..299 /\ data # Null
    THEN OrElse(Get(data, "reply"), Str(NoResponseText))
    ELSE Str(ClientErrorText)

\* const botMessage / errorMessage: Message = {...}
BotMessage(text, t) ==
    [id |-> ToString(t + 1), text |-> text, sender |-> "bot", timestamp |-> t]

FinallyOnlyOnSuccess(queued, status) ==
    IF status \in 200..299 THEN Bool(FALSE) ELSE queued

\* finally { setLoading(false); }: the loading update queued after a settlement
FinallyLoading(queued, status) == Bool(FALSE)

\* handleSend after the await: try, catch and finally
Settle(i, status, data) ==
    LET botMessage == BotMessage(ReplyText(status, data), now)
    IN /\ pendingMsgs' = SetMessagesAppend(pendingMsgs, botMessage)
       /\ pendingLoading' = FinallyLoading(pendingLoading, status)
       /\ http' = [http EXCEPT ![i] =
               Close([@ EXCEPT !.settled = TRUE, !.bot = botMessage])]
       /\ UNCHANGED <<messages, input, loading, pendingInput, now, apiKey, serial>>

\* the backend's response reaches axios
Resolve ==
    \E i \in InFlight :
        /\ http[i].stage = "responded"
        /\ Settle(i, http[i].status, http[i].resBody)
        /\ lastOp' = "resolve"

\* payloads of a 2xx response that are not the backend's {response: string}:
\* JSON null, an empty object, a body that is no JSON (axios hands it on as text)
MalformedPayloads == {Null, <<>>, Str(<<"<html>">>)}

\* the backend's 2xx response reaches axios with a malformed payload
MalformedReply ==
    \E i \in InFlight, d \in MalformedPayloads :
        /\ http[i].stage = "responded"
        /\ http[i].status \in 200..299
        /\ Settle(i, http[i].status, d)
        /\ lastOp' = "malformed"

\* the request or its response is lost: axios rejects without a response
TransportError ==
    \E i \in InFlight :
        /\ Settle(i, 0, <<>>)
        /\ lastOp' = "transportError"

(* ------------------------------ backend -------------------------------- *)
\* another HTTP client posts a body to /api/chat
Bodies ==
    {<<>>, [message |-> Num(123)], [message |-> Num(0)]}
        \cup {[message |-> Str(s)] : s \in {<<>>, <<" ">>, <<"a">>}}

DirectPost ==
    /\ Len(http) < MaxRequests
    /\ \E b \in Bodies :
         http' = Append(http, NewRequest("direct", b, <<>>, NoMessage))
    /\ lastOp' = "other"
    /\ UNCHANGED <<client, now, apiKey, serial>>

RespondWithoutStatus(r, status, body) ==
    [r EXCEPT !.stage = "responded", !.responses = @ + 1, !.status = 200,
              !.resBody = body]

\* res.status(status).json(body)
Respond(r, status, body) ==
    [r EXCEPT !.stage = "responded", !.responses = @ + 1, !.status = status,
              !.resBody = body]

InvalidMessageFalsyOnly(message) == Falsy(message)
InvalidMessageOrBlank(message) ==
    Falsy(message) \/ TypeOf(message) # "string" \/ Trim(message.v) = <<>>

\* if (!message || typeof message !== 'string')
InvalidMessage(message) == Falsy(message) \/ TypeOf(message) # "string"

KeyMissingUndefinedOnly(key) == key = Undefined

\* if (!apiKey)
KeyMissing(key) == Falsy(key)

InvokeProviderAgain(r, message) ==
    [r EXCEPT !.stage = "awaiting", !.providerCalls = @ + 2, !.prompt = message]

\* model.generateContent(message)
InvokeProvider(r, message) ==
    [r EXCEPT !.stage = "awaiting", !.providerCalls = @ + 1, !.prompt = message]

ChatHandlerKeyFirst ==
    \E i \in Requests :
        /\ http[i].stage = "sent"
        /\ LET message == Get(http[i].body, "message")
           IN IF KeyMissing(apiKey)
              THEN http' = [http EXCEPT ![i] =
                               Respond(@, 500, [error |-> Str(NoKeyError)])]
              ELSE IF InvalidMessage(message)
              THEN http' = [http EXCEPT ![i] =
                               Respond(@, 400, [error |-> Str(ValidationError)])]
              ELSE http' = [http EXCEPT ![i] = InvokeProvider(@, message)]
        /\ lastOp' = "other"
        /\ UNCHANGED <<client, now, apiKey, serial>>

\* app.post('/api/chat') up to the await of model.generateContent
ChatHandler ==
    \E i \in Requests :
        /\ http[i].stage = "sent"
        /\ LET message == Get(http[i].body, "message")
           IN IF InvalidMessage(message)
              THEN http' = [http EXCEPT ![i] =
                               Respond(@, 400, [error |-> Str(ValidationError)])]
              ELSE IF KeyMissing(apiKey)
              THEN http' = [http EXCEPT ![i] =
                               Respond(@, 500, [error |-> Str(NoKeyError)])]
              ELSE http' = [http EXCEPT ![i] = InvokeProvider(@, message)]
        /\ lastOp' = "other"
        /\ UNCHANGED <<client, now, apiKey, serial>>

ProviderTexts == {<<>>, <<"h">>}
ProviderErrors == {"quota", "malformed"}
ProviderOutcomes ==
    {[kind |-> "text", text |-> t] : t \in ProviderTexts}
        \cup {[kind |-> "throw", error |-> e] : e \in ProviderErrors}

\* res.json({ response: responseText })
SuccessBody(text) == [response |-> Str(text)]

CatchBodyLeaksError(error) == [error |-> Str(<<error>>)]

\* catch (error) { ... res.status(500).json({ error: 'Internal server error' }) }
CatchBody(error) == [error |-> Str(InternalError)]

\* app.post('/api/chat') after the await: the response, or the catch block
ProviderSettle ==
    \E i \in Requests, o \in ProviderOutcomes :
        /\ http[i].stage = "awaiting"
        /\ IF o.kind = "text"
           THEN http' = [http EXCEPT ![i] =
                   Respond([@ EXCEPT !.outcome = o],
                           200, SuccessBody(o.text))]
           ELSE http' = [http EXCEPT ![i] =
                   Respond([@ EXCEPT !.outcome = o, !.logged = o],
                           500, CatchBody(o.error))]
        /\ lastOp' = "other"
        /\ UNCHANGED <<client, now, apiKey, serial>>

(* ------------------------------- clock --------------------------------- *)
Tick ==
    /\ now < Clock0 + MaxTick
    /\ now' = now + 1
    /\ lastOp' = "other"
    /\ UNCHANGED <<client, apiKey, http, serial>>

\* one browser session talking to the backend
Next ==
    \/ Type
    \/ Render
    \/ HandleSend
    \/ Resolve
    \/ TransportError
    \/ ChatHandler
    \/ ProviderSettle

Spec == Init /\ [][Next]_vars

\* React renders whatever is queued, and every issued call eventually settles
FairSpec == Spec /\ WF_vars(Render) /\ WF_vars(Resolve \/ TransportError)

\* the session over a connection that can hand axios a malformed 2xx payload
WireSpec == Init /\ [][Next \/ MalformedReply]_vars

\* the same with the clock advancing between the steps
TimedSpec == Init /\ [][Next \/ Tick]_vars

\* the backend alone, serving arbitrary HTTP clients
ServerNext ==
    \/ DirectPost
    \/ ChatHandler
    \/ ProviderSettle

ServerSpec == Init /\ [][ServerNext]_vars

\* another client posts a message that the session can post, ahead of the
\* session's submissions
OtherClientPost ==
    /\ http = <<>>
    /\ DirectPost
    /\ http'[1].body \in {RequestBody(t) : t \in Texts}

\* the session next to another client of the same backend
RelaySpec == Init /\ [][Next \/ OtherClientPost]_vars

\* the backend with a handler that runs on and a provider call that settles
FairServerSpec == ServerSpec /\ WF_vars(ChatHandler) /\ WF_vars(ProviderSettle)

(* ============================== claims ================================= *)
\* the session's requests in order of submission
SessionSeq == SelectSeq(http, LAMBDA r : r.origin = "session")
\* requests that this step settles in handleSend
SettledNow == InFlight \ InFlight'

\* C1: in every reachable state at most one POST /api/chat call of the session
\* is issued and not yet resolved.
C1_AtMostOneInFlight == Cardinality(InFlight) <= 1

\* C2: when axios fulfils with the backend's 200 {response: t}, t a non-empty
\* string, the bot Message appended for that submission has text t.
C2_ReplyCarriesResponse ==
    [][lastOp' = "resolve" =>
         \A i \in SettledNow :
             LET t == Get(http[i].resBody, "response")
             IN (http[i].status = 200 /\ t.t = "string" /\ t.v # <<>>)
                    => /\ http'[i].bot.text = t
                       /\ Log' = Append(Log, http'[i].bot)]_vars

\* C3: as long as every submission is made after the reply to the previous one
\* was appended, the log is user, bot, user, bot, ...: the k-th user Message is
\* at position 2k-1 with the k-th submitted text, and the Message its
\* resolution produced follows at position 2k.
C3_AlternatingTurns ==
    serial =>
        /\ Len(Log) = Len(SessionSeq) + Cardinality(SessionRequests \ InFlight)
        /\ \A k \in 1..Len(SessionSeq) :
             /\ Log[2 * k - 1].sender = "user"
             /\ Log[2 * k - 1].text = Str(SessionSeq[k].submitted)
             /\ SessionSeq[k].settled =>
                    /\ Log[2 * k].sender = "bot"
                    /\ Log[2 * k] = SessionSeq[k].bot

\* two complete turns with different texts, made one after the other
C3_Witness ==
    /\ serial
    /\ Len(messages) = 4
    /\ messages[1].text # messages[3].text
    /\ messages[2].text # messages[4].text

\* C4: every settlement of a call (success, non-2xx status, transport error)
\* appends exactly one bot Message and queues loading = false; and, every issued
\* call eventually settling, loading = true always leads to loading = false.
C4_ReturnsToIdle ==
    /\ [][\A i \in SettledNow :
              /\ http'[i].bot.sender = "bot"
              /\ Log' = Append(Log, http'[i].bot)
              /\ pendingLoading' = Bool(FALSE)]_vars
    /\ (loading ~> ~loading)

\* a failed call has been answered with its error Message and the session is idle
C4_Witness ==
    /\ Len(messages) = 2
    /\ messages[2].text = Str(ClientErrorText)
    /\ InFlight = {}
    /\ ~loading /\ pendingLoading = NoUpdate

\* C5: a handleSend invocation while loading is true appends no Message, issues
\* no call and leaves messages, input and loading (and what is queued for them)
\* unchanged.
C5_NoSendWhileLoading ==
    [][(loading /\ lastOp' \in {"return", "handleSend"})
           => UNCHANGED <<client, http>>]_vars

\* handleSend has returned at its guard with text in the input, loading alone
\* refusing it
C5_Witness ==
    /\ lastOp = "return"
    /\ loading
    /\ Trim(input) # <<>>

\* C6: a handleSend invocation whose input trims to the empty string appends no
\* Message, issues no call and leaves messages, loading and the input unchanged;
\* and every user Message of the log has a text that is non-empty once trimmed.
C6_NoBlankSend ==
    /\ [][(Trim(input) = <<>> /\ lastOp' \in {"return", "handleSend"})
              => UNCHANGED <<client, http>>]_vars
    /\ [](\A k \in 1..Len(Log) :
              Log[k].sender = "user" => Trim(Log[k].text.v) # <<>>)

\* handleSend has returned at its guard on a whitespace-only input, and the log
\* holds a user Message already
C6_Witness ==
    /\ lastOp = "return"
    /\ ~loading
    /\ input = <<" ">>
    /\ Len(Log) > 0

(* ------------------------- POST /api/chat ------------------------------ *)
Message(i) == Get(http[i].body, "message")
Responded(i) == http[i].stage = "responded"
IsString(x) == x.t = "string"
IsNonEmptyString(x) == x.t = "string" /\ x.v # <<>>
HasOnlyError(body) == "error" \in DOMAIN body /\ "response" \notin DOMAIN body
Configured == apiKey.t = "string" /\ apiKey.v # <<>>

\* C7: a request whose message is absent or not a string is answered 400 with
\* an error field and no response field, and the provider is never invoked for
\* it, whatever the credential.
C7_InvalidMessageIs400 ==
    \A i \in Requests :
        ~IsString(Message(i)) =>
            /\ http[i].providerCalls = 0
            /\ http[i].stage \in {"sent", "responded"}
            /\ Responded(i) => http[i].status = 400 /\ HasOnlyError(http[i].resBody)

\* {} and {message: 123} have both been answered by a backend that has its key
C7_Witness ==
    /\ Configured
    /\ \E i, j \in Requests :
         /\ http[i].body = <<>> /\ Responded(i)
         /\ http[j].body = [message |-> Num(123)] /\ Responded(j)

\* C8 as stated: with the credential configured, every request whose message
\* is a string is answered 200 {response: t}, t the text the provider returns.
C8_EveryStringSucceeds ==
    \A i \in Requests :
        (IsString(Message(i)) /\ Configured /\ Responded(i)
            /\ http[i].outcome.kind # "throw")
            => /\ http[i].outcome.kind = "text"
               /\ http[i].status = 200
               /\ http[i].resBody = [response |-> Str(http[i].outcome.text)]

\* C8 amended: the same for every request whose message is a non-empty string.
C8_NonEmptyStringSucceeds ==
    \A i \in Requests :
        (IsNonEmptyString(Message(i)) /\ Configured /\ Responded(i)
            /\ http[i].outcome.kind # "throw")
            => /\ http[i].outcome.kind = "text"
               /\ http[i].status = 200
               /\ http[i].resBody = [response |-> Str(http[i].outcome.text)]

\* a whitespace-only message has been answered 200 with the provider's text
C8_Witness ==
    \E i \in Requests :
        /\ http[i].body = [message |-> Str(<<" ">>)]
        /\ Responded(i)
        /\ http[i].status = 200
        /\ http[i].resBody = [response |-> Str(<<"h">>)]

\* C9: with no credential configured (GEMINI_API_KEY unset or empty), a request
\* with a valid message is answered 500 with an error field, whatever the
\* message, and the provider is never invoked for it.
C9_NoKeyIs500 ==
    \A i \in Requests :
        (IsNonEmptyString(Message(i)) /\ apiKey \in {Undefined, Str(<<>>)}) =>
            /\ http[i].providerCalls = 0
            /\ http[i].stage \in {"sent", "responded"}
            /\ Responded(i) => http[i].status = 500 /\ HasOnlyError(http[i].resBody)

\* two different valid messages have been answered with no key set
C9_Witness ==
    /\ apiKey = Undefined
    /\ \E i, j \in Requests :
         /\ IsNonEmptyString(Message(i)) /\ IsNonEmptyString(Message(j))
         /\ Message(i) # Message(j)
         /\ Responded(i) /\ Responded(j)

\* C10: two requests with the same message whose provider calls threw are
\* answered alike, 500 with the one generic error string, whatever was thrown.
C10_GenericProviderError ==
    \A i, j \in Requests :
        (/\ http[i].body = http[j].body
         /\ Responded(i) /\ Responded(j)
         /\ http[i].outcome.kind = "throw" /\ http[j].outcome.kind = "throw")
            => /\ http[i].status = 500
               /\ http[i].status = http[j].status
               /\ http[i].resBody = http[j].resBody
               /\ http[i].resBody = [error |-> Str(InternalError)]

\* the same message met two different provider exceptions, each of them logged
C10_Witness ==
    \E i, j \in Requests :
        /\ http[i].body = http[j].body
        /\ Responded(i) /\ Responded(j)
        /\ http[i].outcome.kind = "throw" /\ http[j].outcome.kind = "throw"
        /\ http[i].outcome.error # http[j].outcome.error
        /\ http[i].logged # http[j].logged

IsPrefix(s, t) == Len(s) <= Len(t) /\ SubSeq(t, 1, Len(s)) = s
Last(s) == s[Len(s)]

\* the step settles exchange i as one of the failures the client can meet
TransportFailure == lastOp' = "transportError"
StatusFailure(i) == lastOp' = "resolve" /\ http[i].status \notin 200..299
PayloadFailure == lastOp' = "malformed"

\* C11: after a transport error, a non-2xx status or a malformed
\* payload the client appends a bot Message with the one fixed error string and
\* queues loading = false.
C11_EveryFailureShowsError ==
    [][\A i \in SettledNow :
          (TransportFailure \/ StatusFailure(i) \/ PayloadFailure)
              => /\ http'[i].bot.text = Str(ClientErrorText)
                 /\ Log' = Append(Log, http'[i].bot)
                 /\ pendingLoading' = Bool(FALSE)]_vars

\* C12: the message log is append-only: in every step the log before the step,
\* rendered or with the queued appends, is a prefix of the log after it.
C12_AppendOnly == [][IsPrefix(Log, Log') /\ IsPrefix(messages, messages')]_vars

\* a submit is rejected on a log that a success and a failure have extended
C12_Witness ==
    /\ lastOp = "return"
    /\ Len(messages) = 4
    /\ messages[2].text = Str(NoResponseText)
    /\ messages[4].text = Str(ClientErrorText)

HasOnlyResponse(body) == "response" \in DOMAIN body /\ "error" \notin DOMAIN body

\* C13: every POST /api/chat request receives exactly one response: none is
\* answered twice or has its response changed, each is answered in the end,
\* and the response has status 200 exactly if its body carries response and no
\* error, and status 400 or 500 exactly if it carries error and no response.
C13_ExactlyOneResponse ==
    /\ [](\A i \in Requests :
            /\ http[i].responses = (IF Responded(i) THEN 1 ELSE 0)
            /\ Responded(i) =>
                 /\ http[i].status \in {200, 400, 500}
                 /\ http[i].status = 200 <=> HasOnlyResponse(http[i].resBody)
                 /\ http[i].status \in {400, 500} <=> HasOnlyError(http[i].resBody))
    /\ [][\A i \in Requests : Responded(i) => http'[i] = http[i]]_vars
    /\ \A i \in 1..MaxRequests : (i \in Requests) ~> (i \in Requests /\ Responded(i))

\* one request has been answered with a response, another with an error
C13_Witness ==
    \E i, j \in Requests :
        /\ Responded(i) /\ HasOnlyResponse(http[i].resBody)
        /\ Responded(j) /\ HasOnlyError(http[j].resBody)

UserMessages == SelectSeq(Log, LAMBDA m : m.sender = "user")

\* C14: the client issues one POST /api/chat per user Message of the log and
\* none after a failure, and the backend invokes the provider at most once for
\* a request.
C14_NoRetries ==
    /\ Len(SessionSeq) = Len(UserMessages)
    /\ \A k \in 1..Len(SessionSeq) : SessionSeq[k].user = UserMessages[k]
    /\ \A i \in Requests : http[i].providerCalls <= 1

\* the one request reached the provider once, the client has shown the error,
\* and nothing was issued again
C14_Witness ==
    /\ Len(http) = 1
    /\ http[1].providerCalls = 1
    /\ InFlight = {}
    /\ Len(messages) = 2
    /\ messages[2].text = Str(ClientErrorText)
    /\ lastOp = "other"

DigitValue(c) == CHOOSE d \in 0..9 : Digit(d) = c

\* the number an id spells: ids are the decimal strings of Date.now() values
RECURSIVE ParseInt(_)
ParseInt(s) ==
    IF s = <<>> THEN 0
    ELSE ParseInt(SubSeq(s, 1, Len(s) - 1)) * 10 + DigitValue(Last(s))

\* C15: under a clock that never runs backwards, where consecutive operations
\* may read the same millisecond or values one apart, no two Messages of the
\* log share an id and a later Message has a strictly greater id than every
\* earlier one; stated for the sessions whose submissions never overlapped.
C15_IdsUniqueMonotonic ==
    serial =>
        \A j, k \in 1..Len(Log) :
            j < k => /\ Log[j].id # Log[k].id
                     /\ ParseInt(Log[j].id) < ParseInt(Log[k].id)

\* the Message is appended by the step
Appends(m) == Log' = Append(Log, m)

\* C16: within one turn the user Message is in the log, as an append queued by
\* setMessages and applied at the next render, from the step that issues the
\* call for its submission; a bot Message is appended only by a step that
\* settles a call, after that call's user Message; and the log holds as many
\* bot Messages as calls have settled.
C16_TurnOrder ==
    /\ [](\A i \in SessionRequests :
            \E p \in 1..Len(Log) :
                /\ Log[p] = http[i].user
                /\ http[i].settled => \E q \in (p + 1)..Len(Log) : Log[q] = http[i].bot)
    /\ [](Len(SelectSeq(Log, LAMBDA m : m.sender = "bot"))
             = Cardinality(SessionRequests \ InFlight))
    /\ [][Len(http') > Len(http) => Appends(Last(http').user)]_vars
    /\ [][(Len(Log') > Len(Log) /\ Last(Log').sender = "bot")
             => \E i \in SettledNow : Appends(http'[i].bot)]_vars

\* the second call is with the backend, answered already, while its user
\* Message is still a queued append
C16_Witness ==
    /\ serial
    /\ Len(http) = 2
    /\ http[1].settled
    /\ 2 \in InFlight
    /\ http[2].stage = "responded"
    /\ Len(messages) = 2
    /\ pendingMsgs = <<http[2].user>>

BotMessages == SelectSeq(Log, LAMBDA m : m.sender = "bot")

\* C17: in every reachable state, with loading and the log as the queued
\* updates leave them, loading is true exactly if exactly one call is
\* outstanding, the log holds as many bot Messages as user Messages less the
\* outstanding calls, and when loading is false the log has even length and
\* does not end with a user Message.
C17_LoadingTracksCall ==
    /\ NextLoading <=> Cardinality(InFlight) = 1
    /\ Len(BotMessages) = Len(UserMessages) - Cardinality(InFlight)
    /\ ~NextLoading => /\ Len(Log) % 2 = 0
                       /\ Len(Log) > 0 => Last(Log).sender # "user"

ProviderInvoked(i) == http[i].providerCalls > 0

\* C18: the backend validates the message, then checks the credential, then
\* calls the provider: a request whose message is missing or is no string is
\* answered 400 also when no credential is set, a request with a valid message
\* and no credential is answered 500, and the provider is invoked only for a
\* request that passed both checks.
C18_CheckOrder ==
    \A i \in Requests :
        /\ (Responded(i) /\ ~IsString(Message(i)))
              => /\ http[i].status = 400
                 /\ http[i].resBody = [error |-> Str(ValidationError)]
        /\ (Responded(i) /\ IsNonEmptyString(Message(i)) /\ ~Configured)
              => /\ http[i].status = 500
                 /\ http[i].resBody = [error |-> Str(NoKeyError)]
        /\ (ProviderInvoked(i) \/ http[i].stage = "awaiting")
              => /\ IsNonEmptyString(Message(i))
                 /\ Configured
                 /\ http[i].providerCalls = 1
        /\ (~IsNonEmptyString(Message(i)) \/ ~Configured) => ~ProviderInvoked(i)

\* with no credential set, a request without message and one with a number
\* for message have been answered 400
C18_Witness ==
    /\ ~Configured
    /\ \E i, j \in Requests :
         /\ http[i].body = <<>> /\ Responded(i) /\ http[i].status = 400
         /\ http[j].body = [message |-> Num(0)] /\ Responded(j) /\ http[j].status = 400

\* C19: the body of a submission's request holds the message alone, which is
\* the text of the user Message appended for it, the input as typed; the prompt
\* given to the provider is that message, with nothing of earlier turns; and
\* two requests with the same message that met the same provider outcome under
\* the one credential are answered alike, whatever was handled before them.
C19_PromptIsThisMessage ==
    /\ \A i \in SessionRequests :
          /\ http[i].user.text = Str(http[i].submitted)
          /\ http[i].body = [message |-> http[i].user.text]
    /\ \A i \in Requests : ProviderInvoked(i) => http[i].prompt = Message(i)
    /\ \A i, j \in Requests :
          (/\ Responded(i) /\ Responded(j)
           /\ Message(i) = Message(j)
           /\ http[i].outcome = http[j].outcome)
              => /\ http[i].status = http[j].status
                 /\ http[i].resBody = http[j].resBody

\* the second turn's prompt is its input with the blanks around it, after a
\* first turn with another text
C19_Witness ==
    /\ Len(http) = 2
    /\ http[1].origin = "session" /\ http[1].settled
    /\ http[1].prompt = Str(<<"a">>)
    /\ http[2].origin = "session"
    /\ http[2].prompt = Str(<<" ", "a", " ">>)
    /\ Last(Log).text = http[2].prompt

====
